---- MODULE Spec2Model ----
(***************************************************************************)
(* State-machine model of the authentication engine of aida0710/jwt-auth:  *)
(* the JWT codec (internal/auth), the refresh-token store                  *)
(* (internal/repository), the audit sink and the AuthUsecase operations    *)
(* sign_up, login, refresh, logout, plus the bearer-token middleware.      *)
(*                                                                         *)
(* Time is a discrete clock whose values are the timestamps the database   *)
(* stores (TIMESTAMP columns, one-second precision): two operations at the *)
(* same clock value write the same timestamp.  UUIDs are drawn from one    *)
(* counter, so every generated identifier is fresh.                        *)
(***************************************************************************)
EXTENDS Integers, Sequences, FiniteSets, TLC

VARIABLES
    now,            \* the wall clock (time.Now())
    accounts,       \* rows of table accounts
    records,        \* rows of table refresh_tokens
    audit,          \* rows of table security_audit_logs, in insertion order
    nextUUID,       \* source of fresh UUIDs
    calls,          \* one in-flight or finished request per worker
    accessIssued,   \* access-token strings handed to clients
    refreshIssued,  \* refresh-token strings handed to clients
    last,           \* the request that returned most recently, and its outcome
    rotations,      \* history: <<T, T2>> when refresh(T) returned T2
    compromised,    \* history: T2 when refresh(T) had returned T2 and a later
                    \* refresh(T) returned TokenCompromised
    loggedOut,      \* history: T when some logout(T) revoked T's record
    auditSink,      \* how the engine's audit repository is wired and behaves
    ctok, cnow, cres, \* codec harness: a token, a clock value, the verdict
    fin, fout       \* function harness: the arguments of a pure function of
                    \* the program, and what it returned

vars == <<now, accounts, records, audit, nextUUID, calls,
          accessIssued, refreshIssued, last, rotations, compromised,
          loggedOut, auditSink, ctok, cnow, cres, fin, fout>>

protoVars == <<now, accounts, records, audit, nextUUID, calls,
               accessIssued, refreshIssued, last, rotations, compromised,
               loggedOut, auditSink>>

codecVars == <<ctok, cnow, cres, fin, fout>>

-----------------------------------------------------------------------------
(* Bounds of the model.                                                    *)

MaxTime == 2
MaxUUID == 7
MaxAudit == 2

(* Where the UUID counter stands when a single client starts: it leaves    *)
(* room for one sign-up and one further pair.  Two racing clients start    *)
(* from a counter of zero: one sign-up and two further pairs.              *)
SeqFirstUUID == 2

(* Two request goroutines.                                                 *)
Workers == {"w1", "w2"}

(* Durations, in clock ticks, standing for the configured expiries.        *)
AccessTokenExpiry == 1
RefreshTokenExpiry == 1
RecordLifetime == 1

NULL == -1          \* SQL NULL / Go nil for a timestamp
EmptyStr == -1      \* a claim that is missing or the empty string
NotUUID == -2       \* a claim string that uuid.Parse rejects
NilUUID == 0        \* uuid.Nil, the "unknown account" of audit events

-----------------------------------------------------------------------------
(* Configuration (config.LoadConfig): two HMAC secrets, issuer, audience.  *)

AccessTokenSecret == "access-secret"
RefreshTokenSecret == "refresh-secret"
Issuer == "jwt-auth-api"
Audience == <<"jwt-auth-api">>

-----------------------------------------------------------------------------
(* Tokens.  A token string is modelled by what its three segments decode   *)
(* to:                                                                     *)
(*   parts   number of segments strings.Split(token, ".") yields           *)
(*   hdrOk   the first segment is base64url JSON                           *)
(*   alg     the header's "alg"                                            *)
(*   body    the JSON payload (a missing claim is EmptyStr)                *)
(*   sig     the third segment: sig.key is the key that computed the MAC   *)
(*           ("" for an empty segment, "garbage" for bytes that are no     *)
(*           MAC of anything), sig.alg and sig.body what was signed.       *)

HS256 == "HS256"

(* Algorithms registered with golang-jwt (jwt.GetSigningMethod # nil).     *)
RegisteredAlgs == {"HS256", "HS384", "HS512", "RS256", "ES256", "none"}
HMACAlgs == {"HS256", "HS384", "HS512"}

Body(tokenID, accountID, email, iss, aud, exp, nbf, iat, jti) ==
    [token_id |-> tokenID, account_id |-> accountID, email |-> email,
     iss |-> iss, aud |-> aud, exp |-> exp, nbf |-> nbf, iat |-> iat,
     sub |-> accountID, jti |-> jti]

(* token.SignedString(secret): HS256 header, MAC over header and payload.  *)
SignedString(body, secret) ==
    [parts |-> 3, hdrOk |-> TRUE, alg |-> HS256, body |-> body,
     sig |-> [key |-> secret, alg |-> HS256, body |-> body]]

(* JWTManager.GenerateAccessToken at clock value t with jti = id.          *)
GenerateAccessToken(accountID, email, t, id) ==
    SignedString(Body(EmptyStr, accountID, email, Issuer, Audience,
                      t + AccessTokenExpiry, t, t, id),
                 AccessTokenSecret)

(* JWTManager.GenerateRefreshToken at clock value t with token id = id,    *)
(* under a configuration whose RefreshTokenExpiry is expiry.               *)
GenerateRefreshTokenWith(accountID, t, id, expiry) ==
    SignedString(Body(id, accountID, "", Issuer, Audience,
                      t + expiry, t, t, id),
                 RefreshTokenSecret)

(* The same under the default configuration.                               *)
GenerateRefreshToken(accountID, t, id) ==
    GenerateRefreshTokenWith(accountID, t, id, RefreshTokenExpiry)

(* Storing and looking up the token string itself, unhashed.               *)
HashTokenPlain(token) == token

(* HashToken: hex(sha256(token)).  SHA-256 is modelled as an injective     *)
(* tagging of the token string; the digest is never the string itself.     *)
HashToken(token) == [sha256 |-> token]

(* The audience strings of the model, in the byte order of Go's string     *)
(* comparison ("a" < "j" < "o").                                           *)
AudienceNames == <<"admin-api", "jwt-auth-api", "orders-api">>

StringRank(s) == CHOOSE i \in 1..Len(AudienceNames) : AudienceNames[i] = s

(* a < b on Go strings.                                                    *)
StringLess(a, b) == StringRank(a) < StringRank(b)

(* sort.Strings: the list in ascending order.                              *)
RECURSIVE SortStrings(_)
SortStrings(s) ==
    IF Len(s) <= 1 THEN s
    ELSE LET rest == SortStrings(Tail(s))
             before == SelectSeq(rest, LAMBDA x : StringLess(x, Head(s)))
             after == SelectSeq(rest, LAMBDA x : ~StringLess(x, Head(s)))
         IN before \o <<Head(s)>> \o after

(* The earlier audience rule of validateStandardClaims: one entry of the   *)
(* token's list found in the configured list is enough.                    *)
audienceAnyMatch(tokenAud, configAud) ==
    \E i \in 1..Len(tokenAud), j \in 1..Len(configAud) :
        tokenAud[i] = configAud[j]

(* audienceExactMatch: equal lengths, then both lists sorted and compared  *)
(* position by position.                                                   *)
audienceExactMatch(tokenAud, configAud) ==
    /\ Len(tokenAud) = Len(configAud)
    /\ \A i \in 1..Len(tokenAud) :
          SortStrings(tokenAud)[i] = SortStrings(configAud)[i]

(* A faulty Keyfunc that accepts the whole HMAC family.                    *)
KeyfuncErrorAnyHMAC(alg) ==
    IF alg = "none" \/ alg = "" THEN "none algorithm is not allowed"
    ELSE IF alg \notin {"HS256", "HS384", "HS512"} THEN "unexpected signing method type"
    ELSE ""

(* The Keyfunc passed to jwt.ParseWithClaims: an error message, or "" when *)
(* it returns the secret.                                                  *)
KeyfuncError(alg) ==
    IF alg # HS256 THEN "invalid signing algorithm"
    ELSE IF alg = "none" \/ alg = "" THEN "none algorithm is not allowed"
    ELSE IF alg \notin HMACAlgs THEN "unexpected signing method type"
    ELSE ""

(* The validator's exp rule with the expiry instant still accepted.        *)
verifyExpiresAtInclusive(exp, t) == exp = NULL \/ t <= exp

(* The validator's rules behind jwt.ErrTokenExpired and                    *)
(* jwt.ErrTokenNotValidYet: a claim that is absent passes.                 *)
verifyExpiresAt(exp, t) == exp = NULL \/ t < exp
verifyNotBefore(nbf, t) == nbf = NULL \/ t >= nbf

(* JWTManager.validateToken.  Returns the error message ("" for nil) and   *)
(* keyUsed: whether the Keyfunc returned the secret, so that               *)
(* token.Method.Verify ran with it.  ParseWithClaims is called without     *)
(* parser options: the library's validator then compares exp and nbf with  *)
(* the clock when the claim is there, asks for neither, and does not look  *)
(* at iat.                                                                 *)
validateToken(token, secret, t) ==
    IF token.parts # 3
        THEN [err |-> "invalid structure", keyUsed |-> FALSE]
    ELSE IF token.sig.key = ""
        THEN [err |-> "part is empty", keyUsed |-> FALSE]
    ELSE IF ~token.hdrOk
        THEN [err |-> "is malformed", keyUsed |-> FALSE]
    ELSE IF token.alg \notin RegisteredAlgs
        THEN [err |-> "validation failed: signing method (alg) is unavailable",
              keyUsed |-> FALSE]
    ELSE IF KeyfuncError(token.alg) # ""
        THEN [err |-> "validation failed: " \o KeyfuncError(token.alg),
              keyUsed |-> FALSE]
    ELSE IF ~(token.sig.key = secret /\ token.sig.alg = token.alg
              /\ token.sig.body = token.body)
        THEN [err |-> "signature verification failed", keyUsed |-> TRUE]
    ELSE IF ~verifyExpiresAt(token.body.exp, t)
        THEN [err |-> "has expired", keyUsed |-> TRUE]
    ELSE IF ~verifyNotBefore(token.body.nbf, t)
        THEN [err |-> "is not valid yet", keyUsed |-> TRUE]
    ELSE [err |-> "", keyUsed |-> TRUE]

(* The audience rule of validateStandardClaims against a configured list: *)
(* skipped when that list is empty.                                        *)
checkAudience(audience, configAudience) ==
    IF Len(configAudience) > 0 /\ ~audienceExactMatch(audience, configAudience)
        THEN "audience mismatch"
    ELSE ""

(* validateStandardClaims without its issuer rule.                         *)
validateStandardClaimsAudienceOnly(issuer, audience) ==
    checkAudience(audience, Audience)

(* JWTManager.validateStandardClaims.                                      *)
validateStandardClaims(issuer, audience) ==
    IF issuer # Issuer THEN "invalid issuer"
    ELSE checkAudience(audience, Audience)

(* ValidateAccessToken without the test for the email claim.               *)
ValidateAccessTokenNoEmail(token, t, secret) ==
    LET v == validateToken(token, secret, t) IN
    IF v.err # "" THEN v
    ELSE IF token.body.account_id = EmptyStr
        THEN [v EXCEPT !.err = "missing account ID in claims"]
    ELSE IF validateStandardClaims(token.body.iss, token.body.aud) # ""
        THEN [v EXCEPT !.err = validateStandardClaims(token.body.iss, token.body.aud)]
    ELSE IF token.body.account_id = NotUUID
        THEN [v EXCEPT !.err = "invalid account ID format"]
    ELSE v

(* JWTManager.ValidateAccessToken under a configuration whose              *)
(* AccessTokenSecret is secret.                                            *)
ValidateAccessTokenWith(token, t, secret) ==
    LET v == validateToken(token, secret, t) IN
    IF v.err # "" THEN v
    ELSE IF token.body.account_id = EmptyStr
        THEN [v EXCEPT !.err = "missing account ID in claims"]
    ELSE IF token.body.email = ""
        THEN [v EXCEPT !.err = "missing email in claims"]
    ELSE IF validateStandardClaims(token.body.iss, token.body.aud) # ""
        THEN [v EXCEPT !.err = validateStandardClaims(token.body.iss, token.body.aud)]
    ELSE IF token.body.account_id = NotUUID
        THEN [v EXCEPT !.err = "invalid account ID format"]
    ELSE v

(* JWTManager.ValidateAccessToken under the default configuration.         *)
ValidateAccessToken(token, t) ==
    ValidateAccessTokenWith(token, t, AccessTokenSecret)

(* JWTManager.ValidateRefreshToken under a configuration whose             *)
(* RefreshTokenSecret is secret.                                           *)
ValidateRefreshTokenWith(token, t, secret) ==
    LET v == validateToken(token, secret, t) IN
    IF v.err # "" THEN v
    ELSE IF token.body.token_id = EmptyStr
        THEN [v EXCEPT !.err = "missing token ID in refresh token claims"]
    ELSE IF token.body.account_id = EmptyStr
        THEN [v EXCEPT !.err = "missing account ID in refresh token claims"]
    ELSE IF token.body.token_id = NotUUID
        THEN [v EXCEPT !.err = "invalid token ID format"]
    ELSE IF token.body.account_id = NotUUID
        THEN [v EXCEPT !.err = "invalid account ID format"]
    ELSE IF validateStandardClaims(token.body.iss, token.body.aud) # ""
        THEN [v EXCEPT !.err = validateStandardClaims(token.body.iss, token.body.aud)]
    ELSE v

(* JWTManager.ValidateRefreshToken under the default configuration.        *)
ValidateRefreshToken(token, t) ==
    ValidateRefreshTokenWith(token, t, RefreshTokenSecret)

(* strings.Contains(err.Error(), "...") for the three messages the engine  *)
(* and the middleware look for.                                            *)
ContainsNoneAlgorithm(err) == err = "validation failed: none algorithm is not allowed"
ContainsSignatureFailed(err) == err = "signature verification failed"
ContainsInvalidAlgorithm(err) == err = "validation failed: invalid signing algorithm"
ContainsMalformed(err) == err = "is malformed"

-----------------------------------------------------------------------------
(* Inputs the clients send.                                                *)

Emails == {"alice@example.com", "alice.example.com"}
SignUpEmails == {"alice@example.com", "bob@example.com"}
ContainsAt(email) == email \in {"alice@example.com", "bob@example.com"}
ContainsDot(email) == email \in Emails \cup SignUpEmails

(* Passwords with their len() in bytes.                                    *)
SignUpPasswords == {[text |-> "Secret123!", len |-> 10],
                    [text |-> "short", len |-> 5]}
LoginPasswords == {[text |-> "Secret123!", len |-> 10],
                   [text |-> "Wrong123!!", len |-> 10]}
Names == {"Alice"}

(* Passwords at the limits of the handler's length rule.  len is what Go's *)
(* len(req.Password) returns, the number of bytes of the UTF-8 string;     *)
(* chars is its number of unicode scalars.  "e'" stands for a two-byte     *)
(* letter.                                                                 *)
BoundaryPasswords ==
    {[text |-> "7 ascii", len |-> 7, chars |-> 7],
     [text |-> "8 ascii", len |-> 8, chars |-> 8],
     [text |-> "60 ascii", len |-> 60, chars |-> 60],
     [text |-> "61 ascii", len |-> 61, chars |-> 61],
     [text |-> "7 times e'", len |-> 14, chars |-> 7],
     [text |-> "59 ascii and e'", len |-> 61, chars |-> 60]}

MinPasswordLength == 8
MaxPasswordLength == 60

(* auth.HashPassword / auth.VerifyPassword (bcrypt).                       *)
HashPassword(password) == <<"bcrypt", password.text>>
VerifyPassword(password, hash) == hash = <<"bcrypt", password.text>>

NoBody == Body(EmptyStr, EmptyStr, "", "", <<>>, 0, 0, 0, EmptyStr)
NoToken == [parts |-> 0, hdrOk |-> FALSE, alg |-> "", body |-> NoBody,
            sig |-> [key |-> "", alg |-> "", body |-> NoBody]]

(* "invalid.token.here": three segments, none of them base64url JSON.      *)
GarbageToken == [NoToken EXCEPT !.parts = 3, !.sig.key = "garbage"]

(* What an attacker can build from a token it has seen: the alg:none       *)
(* forgery (header replaced, signature dropped) and a tampered signature.  *)
Forge(token) ==
    {[token EXCEPT !.alg = "none", !.sig.key = ""],
     [token EXCEPT !.sig.key = "garbage"]}

PresentableTokens ==
    refreshIssued \cup accessIssued \cup {GarbageToken}
        \cup UNION {Forge(t) : t \in refreshIssued \cup accessIssued}

-----------------------------------------------------------------------------
(* Rows and the requests in flight.                                        *)

NoAccount == [id |-> NULL, email |-> "", name |-> "", password_hash |-> <<"", "">>]

NoRecord == [id |-> NULL, account_id |-> NULL, token_hash |-> HashToken(NoToken),
             expires_at |-> 0, created_at |-> 0, used_at |-> NULL,
             revoked_at |-> NULL]

(* A request in flight: the operation, the step it is at, the token it    *)
(* presented, the rows it read.  The remaining fields are history kept for *)
(* the properties:                                                         *)
(*   late        refresh(T): some refresh(T) had returned a pair before    *)
(*               this call started; logout(T): some logout(T) had revoked  *)
(*               T's record before this call started                       *)
(*   afterReuse  refresh(P2): refresh(P1) had returned P2 and a later      *)
(*               refresh(P1) had returned TokenCompromised, both before    *)
(*               this call started                                         *)
(*   lost        refresh(T): the row was read unused, and at the consume   *)
(*               step another call had consumed it                         *)
(*   known       sign_up/login: the email belonged to an account when the  *)
(*               call started                                              *)
(*   invalid     the token failed codec validation when the call started,  *)
(*               or its record was absent, expired, used or revoked        *)
(*   wrote       a step of this call changed a row of accounts or of       *)
(*               refresh_tokens                                            *)
(*   returned    AuthTokens.Account of the answer, NoAccount while there   *)
(*               is none                                                   *)
Idle == [op |-> "idle", pc |-> "idle", token |-> NoToken, stored |-> NoRecord,
         account |-> NoAccount, late |-> FALSE, afterReuse |-> FALSE,
         lost |-> FALSE, known |-> FALSE, invalid |-> FALSE, wrote |-> FALSE,
         returned |-> NoAccount]

(* A faulty validity check that forgets revocation.                        *)
IsValidIgnoringRevoked(rt, t) == rt.expires_at > t /\ rt.used_at = NULL

(* RefreshToken.IsValid at clock value t.                                  *)
IsValid(rt, t) == rt.expires_at > t /\ rt.used_at = NULL /\ rt.revoked_at = NULL

(* A faulty lookup that never finds the account.                           *)
GetByEmailMiss(email) ==
    [id |-> NULL, email |-> "", name |-> "", password_hash |-> <<"", "">>]

(* accountRepository.GetByEmail / GetByID: the row, or NoAccount for       *)
(* (nil, nil).                                                             *)
GetByEmail(email) ==
    IF \E a \in accounts : a.email = email
        THEN CHOOSE a \in accounts : a.email = email
        ELSE NoAccount

(* A lookup that returns a row whatever the id.                            *)
GetByIDAny(id) ==
    IF accounts # {} THEN CHOOSE a \in accounts : TRUE ELSE NoAccount

GetByID(id) ==
    IF \E a \in accounts : a.id = id
        THEN CHOOSE a \in accounts : a.id = id
        ELSE NoAccount

(* RefreshTokenRepository.GetByTokenHash: the row, or NoRecord for         *)
(* domain.ErrNotFound.                                                     *)
GetByTokenHash(hash) ==
    IF \E r \in records : r.token_hash = hash
        THEN CHOOSE r \in records : r.token_hash = hash
        ELSE NoRecord

(* The rows an UPDATE ... SET col = t WHERE id = ? changes.  The DSN does  *)
(* not set clientFoundRows, so RowsAffected counts changed rows only: a    *)
(* row that already holds t is matched but not counted.                    *)
MarkAsUsedRows(id, t) == {r \in records : r.id = id /\ r.used_at # t}
RevokeRows(id, t) == {r \in records : r.id = id /\ r.revoked_at # t}

(* A faulty UPDATE that leaves used_at alone.                              *)
MarkAsUsedNoRow(id, t) == records

(* RefreshTokenRepository.MarkAsUsed: the table after the UPDATE.          *)
MarkAsUsed(id, t) ==
    {IF r.id = id THEN [r EXCEPT !.used_at = t] ELSE r : r \in records}

(* A faulty UPDATE that clears revoked_at of a row that has it.            *)
RevokeToggle(id, t) ==
    {IF r.id = id
        THEN [r EXCEPT !.revoked_at = IF r.revoked_at = NULL THEN t ELSE NULL]
        ELSE r : r \in records}

(* An UPDATE that revokes every row of the account the row belongs to.     *)
RevokeFamilyOf(id, t) ==
    {IF \E x \in records : x.id = id /\ x.account_id = r.account_id
        THEN [r EXCEPT !.revoked_at = t] ELSE r : r \in records}

(* RefreshTokenRepository.Revoke: the table after the UPDATE.              *)
Revoke(id, t) ==
    {IF r.id = id THEN [r EXCEPT !.revoked_at = t] ELSE r : r \in records}

(* Faulty family revocations: one that revokes nothing, one that revokes   *)
(* only the records already used.                                          *)
RevokeNone(accountID, t) == records

RevokeOnlyUsed(accountID, t) ==
    {IF r.account_id = accountID /\ r.revoked_at = NULL /\ r.used_at # NULL
        THEN [r EXCEPT !.revoked_at = t] ELSE r : r \in records}

(* The UPDATE without "account_id = ?".                                    *)
RevokeEveryAccount(accountID, t) ==
    {IF r.revoked_at = NULL
        THEN [r EXCEPT !.revoked_at = t] ELSE r : r \in records}

(* The UPDATE without "AND revoked_at IS NULL".                            *)
RevokeByAccountIDAgain(accountID, t) ==
    {IF r.account_id = accountID
        THEN [r EXCEPT !.revoked_at = t] ELSE r : r \in records}

(* RefreshTokenRepository.RevokeByAccountID: the table after the UPDATE.   *)
RevokeByAccountID(accountID, t) ==
    {IF r.account_id = accountID /\ r.revoked_at = NULL
        THEN [r EXCEPT !.revoked_at = t] ELSE r : r \in records}

(* The audit repository NewAuthUsecase was given: nil ("absent"), one      *)
(* whose INSERT works ("up"), one whose INSERT fails ("down").             *)
SinkModes == {"absent", "up", "down"}

(* SecurityAuditLogRepository.Create: the table after the call, and        *)
(* whether it returned an error.  Under the schema's foreign key           *)
(* account_id -> accounts(id) the INSERT fails for an account id that is   *)
(* no row of accounts.                                                     *)
SecurityAuditCreate(accountID, eventType) ==
    IF auditSink = "up" /\ \E a \in accounts : a.id = accountID
        THEN [rows |-> Append(audit, [account_id |-> accountID,
                                      event_type |-> eventType]),
              err |-> FALSE]
        ELSE [rows |-> audit, err |-> TRUE]

(* logSecurityEvent calling Create on the repository whether or not it is  *)
(* nil: a nil interface panics.                                            *)
logSecurityEventNoNilCheck(accountID, eventType) ==
    IF auditSink = "absent"
        THEN [audit |-> audit, panicked |-> TRUE]
        ELSE [audit |-> SecurityAuditCreate(accountID, eventType).rows,
              panicked |-> FALSE]

(* AuthUsecase.logSecurityEvent: the audit table after the call, and       *)
(* whether the call panicked.  It has no return value: an error of Create  *)
(* is printed.                                                             *)
logSecurityEvent(accountID, eventType) ==
    IF auditSink = "absent"
        THEN [audit |-> audit, panicked |-> FALSE]
        ELSE [audit |-> SecurityAuditCreate(accountID, eventType).rows,
              panicked |-> FALSE]

(* Audit rows the requests in flight will still append.                    *)
PendingAudit == Cardinality({w \in Workers : calls[w].pc = "rf_revoke"})

CanStart(w) == calls[w].op = "idle"

(* A refresh-token string that is not live at the current clock value: it  *)
(* fails codec validation, or no record carries its hash, or the record is *)
(* expired, used or revoked.                                               *)
NotLive(token) ==
    \/ ValidateRefreshToken(token, now).err # ""
    \/ \A r \in records :
          r.token_hash = HashToken(token) =>
              r.expires_at <= now \/ r.used_at # NULL \/ r.revoked_at # NULL

(* Whether the step being taken changes a row of accounts or of           *)
(* refresh_tokens.                                                         *)
Changed == <<accounts, records>>' # <<accounts, records>>

(* What the caller of a finished request observes; stage names the step    *)
(* of the operation that produced the result.                              *)
Outcome(c, stage, result) ==
    [op |-> c.op, stage |-> stage, result |-> result,
     late |-> c.late, afterReuse |-> c.afterReuse, lost |-> c.lost,
     known |-> c.known, invalid |-> c.invalid, wrote |-> c.wrote \/ Changed,
     returned |-> c.returned]

Return(w, c, stage, result) ==
    /\ calls' = [calls EXCEPT ![w] = Idle]
    /\ last' = Outcome(c, stage, result)

Continue(w, c) ==
    /\ calls' = [calls EXCEPT ![w] = [c EXCEPT !.wrote = c.wrote \/ Changed]]
    /\ UNCHANGED last

-----------------------------------------------------------------------------
(* AuthUsecase.generateTokens: issue a pair for the account the request    *)
(* holds and persist the refresh-token row.  The INSERT fails on the       *)
(* foreign key account_id -> accounts(id) and on the unique id/token_hash. *)
(* A nil account (GetByID answered (nil, nil)) is dereferenced: a panic.   *)

(* Handing out the account as it was read, password hash included.         *)
AccountItself(account) == account

(* accountCopy := *account; accountCopy.PasswordHash = "": the copy        *)
(* generateTokens returns in AuthTokens.Account.                           *)
AccountCopy(account) == [account EXCEPT !.password_hash = <<"", "">>]

NewRefreshToken(accountID, tokenHash, expiresAt, id, t) ==
    [id |-> id, account_id |-> accountID, token_hash |-> tokenHash,
     expires_at |-> expiresAt, created_at |-> t, used_at |-> NULL,
     revoked_at |-> NULL]

(* The row generateTokens builds for the refresh token it generated.       *)
StoredTokenOf(accountID, refreshToken, tokenID, t) ==
    NewRefreshToken(accountID, HashToken(refreshToken), t + RecordLifetime,
                    tokenID, t)

CreateFails(row) ==
    \/ ~\E a \in accounts : a.id = row.account_id
    \/ \E r \in records : r.id = row.id \/ r.token_hash = row.token_hash

generateTokens(w) ==
    LET c == calls[w]
        accessToken == GenerateAccessToken(c.account.id, c.account.email, now,
                                           nextUUID + 1)
        tokenID == nextUUID + 2
        refreshToken == GenerateRefreshToken(c.account.id, now, tokenID)
        storedToken == StoredTokenOf(c.account.id, refreshToken, tokenID, now)
    IN
    /\ c.pc = "issue"
    /\ nextUUID + 2 <= MaxUUID
    /\ nextUUID' = nextUUID + 2
    /\ UNCHANGED <<now, accounts, audit, compromised, loggedOut, codecVars, auditSink>>
    /\ IF c.account = NoAccount
          THEN /\ UNCHANGED <<records, accessIssued, refreshIssued, rotations>>
               /\ Return(w, c, "issue", "Panic")
       ELSE IF CreateFails(storedToken)
          THEN /\ UNCHANGED <<records, accessIssued, refreshIssued, rotations>>
               /\ Return(w, c, "issue", "Internal")
          ELSE /\ records' = records \cup {storedToken}
               /\ accessIssued' = accessIssued \cup {accessToken}
               /\ refreshIssued' = refreshIssued \cup {refreshToken}
               /\ rotations' = IF c.op = "refresh"
                                  THEN rotations \cup {<<c.token, refreshToken>>}
                                  ELSE rotations
               /\ Return(w, [c EXCEPT !.returned = AccountCopy(c.account)],
                         "issue", "ok")

(* generateTokens when refreshTokenRepo.Create returns an error the rows do *)
(* not explain (the request's context was cancelled, the connection was    *)
(* lost): both tokens were generated, no row is written.                   *)
generateTokensCreateError(w) ==
    LET c == calls[w] IN
    /\ c.pc = "issue"
    /\ c.account # NoAccount
    /\ nextUUID + 2 <= MaxUUID
    /\ nextUUID' = nextUUID + 2
    /\ UNCHANGED <<now, accounts, records, audit, accessIssued, refreshIssued,
                   rotations, compromised, loggedOut, codecVars, auditSink>>
    /\ Return(w, c, "create_error", "Internal")

-----------------------------------------------------------------------------
(* sign_up: AuthHandler.SignUp, then AuthUsecase.SignUp.                   *)

(* Account.Validate.                                                       *)
Validate(email, name) ==
    IF email = "" THEN "ErrInvalidEmail"
    ELSE IF ~ContainsAt(email) \/ ~ContainsDot(email) THEN "ErrInvalidEmail"
    ELSE IF name = "" THEN "ErrInvalidName"
    ELSE ""

(* The handler's checks and the usecase up to the INSERT of the account.   *)
SignUp(w, email, password, name) ==
    LET existing == GetByEmail(email)
        c == [Idle EXCEPT !.op = "signup",
                          !.known = \E a \in accounts : a.email = email]
    IN
    /\ CanStart(w)
    /\ UNCHANGED <<now, accounts, records, audit, nextUUID, accessIssued,
                   refreshIssued, rotations, compromised, loggedOut, codecVars, auditSink>>
    /\ IF email = "" \/ password.text = "" \/ name = ""
            \/ password.len < MinPasswordLength
            \/ password.len > MaxPasswordLength
          THEN Return(w, c, "handler", "InvalidInput")
       ELSE IF existing # NoAccount
          THEN Return(w, c, "exists", "EmailTaken")
       ELSE IF Validate(email, name) # ""
          THEN Return(w, c, "validate", "InvalidInput")
       ELSE Continue(w, [c EXCEPT !.pc = "su_create",
                                  !.account = [id |-> NULL, email |-> email,
                                               name |-> name,
                                               password_hash |-> HashPassword(password)]])

(* Table accounts without its unique key on email.                         *)
NoUniqueEmail(account) == FALSE

(* The unique key of accounts.email: the INSERT of this row is refused.    *)
DuplicateEmail(account) == \E a \in accounts : a.email = account.email

(* accountRepository.Create: the INSERT fails on the unique email.         *)
SignUpCreate(w) ==
    LET c == calls[w]
        account == [c.account EXCEPT !.id = nextUUID + 1]
    IN
    /\ c.pc = "su_create"
    /\ nextUUID + 1 <= MaxUUID
    /\ nextUUID' = nextUUID + 1
    /\ UNCHANGED <<now, records, audit, accessIssued, refreshIssued,
                   rotations, compromised, loggedOut, codecVars, auditSink>>
    /\ IF DuplicateEmail(account)
          THEN /\ UNCHANGED accounts
               /\ Return(w, c, "create", "Internal")
          ELSE /\ accounts' = accounts \cup {account}
               /\ Continue(w, [c EXCEPT !.pc = "issue", !.account = account])

-----------------------------------------------------------------------------
(* login: AuthUsecase.Login.  GetByEmail answers (nil, nil) for an unknown *)
(* email, so account.PasswordHash dereferences nil and the request panics. *)

Login(w, email, password) ==
    LET account == GetByEmail(email)
        c == [Idle EXCEPT !.op = "login",
                          !.known = \E a \in accounts : a.email = email]
    IN
    /\ CanStart(w)
    /\ UNCHANGED <<now, accounts, records, audit, nextUUID, accessIssued,
                   refreshIssued, rotations, compromised, loggedOut, codecVars, auditSink>>
    /\ IF account = NoAccount
          THEN Return(w, c, "lookup", "Panic")
       ELSE IF ~VerifyPassword(password, account.password_hash)
          THEN Return(w, c, "verify", "InvalidCredentials")
       ELSE Continue(w, [c EXCEPT !.pc = "issue", !.account = account])

-----------------------------------------------------------------------------
(* refresh: AuthUsecase.RefreshToken.                                      *)

Suspicious(err) ==
    ContainsNoneAlgorithm(err) \/ ContainsSignatureFailed(err)
        \/ ContainsInvalidAlgorithm(err)

(* A reuse test that runs after the validity test: a used record that is   *)
(* also revoked or expired is not reported.                                *)
ReuseDetectedIfValid(storedToken, t) ==
    /\ storedToken.used_at # NULL
    /\ storedToken.revoked_at = NULL
    /\ storedToken.expires_at > t

(* storedToken.UsedAt != nil, the first test on the row read.              *)
ReuseDetected(storedToken, t) == storedToken.used_at # NULL

(* Codec validation, the lookup by hash and the checks on the row read;    *)
(* a call that passes them goes on at pc with the given account loaded.    *)
RefreshStart(w, refreshToken, pc, account) ==
    LET v == ValidateRefreshToken(refreshToken, now)
        storedToken == GetByTokenHash(HashToken(refreshToken))
        c == [Idle EXCEPT !.op = "refresh", !.token = refreshToken,
                          !.late = \E r \in rotations : r[1] = refreshToken,
                          !.afterReuse = refreshToken \in compromised,
                          !.invalid = NotLive(refreshToken)]
    IN
    /\ CanStart(w)
    /\ (v.err = "" /\ storedToken.used_at # NULL)
          => Len(audit) + PendingAudit < MaxAudit
    /\ UNCHANGED <<now, accounts, records, nextUUID, accessIssued,
                   refreshIssued, rotations, compromised, loggedOut, codecVars, auditSink>>
    /\ IF v.err # "" /\ Suspicious(v.err)
          THEN /\ audit' = logSecurityEvent(NilUUID, "SUSPICIOUS_LOGIN").audit
               /\ Return(w, c, "codec",
                         IF logSecurityEvent(NilUUID, "SUSPICIOUS_LOGIN").panicked
                            THEN "Panic" ELSE "InvalidToken")
       ELSE IF v.err # ""
          THEN /\ UNCHANGED audit
               /\ Return(w, c, "codec", "InvalidToken")
       ELSE IF storedToken = NoRecord
          THEN /\ UNCHANGED audit
               /\ Return(w, c, "lookup", "InvalidToken")
       ELSE IF ReuseDetected(storedToken, now)
          THEN /\ UNCHANGED audit
               /\ Continue(w, [c EXCEPT !.pc = "rf_revoke", !.stored = storedToken])
       ELSE IF ~IsValid(storedToken, now)
          THEN /\ UNCHANGED audit
               /\ Return(w, c, "validity", "InvalidToken")
       ELSE /\ UNCHANGED audit
            /\ Continue(w, [c EXCEPT !.pc = pc, !.stored = storedToken,
                                     !.account = account])

(* AuthUsecase.RefreshToken up to accountRepo.GetByID(claims.AccountID),   *)
(* where no row of accounts is removed meanwhile: the two reads are one    *)
(* step.  Only a non-nil error returns at GetByID, (nil, nil) carries on   *)
(* with a nil account.                                                     *)
RefreshToken(w, refreshToken) ==
    RefreshStart(w, refreshToken, "rf_mark", GetByID(refreshToken.body.account_id))

(* The same with the two reads as two steps, for the runs in which an      *)
(* account can be deleted between them.                                    *)
RefreshTokenRead(w, refreshToken) ==
    RefreshStart(w, refreshToken, "rf_load", NoAccount)

RefreshLoadAccount(w) ==
    LET c == calls[w] IN
    /\ c.pc = "rf_load"
    /\ UNCHANGED <<now, accounts, records, audit, nextUUID, accessIssued,
                   refreshIssued, rotations, compromised, loggedOut, codecVars, auditSink>>
    /\ Continue(w, [c EXCEPT !.pc = "rf_mark",
                             !.account = GetByID(c.token.body.account_id)])

(* accountRepository.Delete, called by the account usecase: the row goes,  *)
(* and with it (ON DELETE CASCADE) the account's refresh-token records and *)
(* audit rows.                                                             *)
DeleteAccount(id) ==
    /\ \E a \in accounts : a.id = id
    /\ accounts' = {a \in accounts : a.id # id}
    /\ records' = {r \in records : r.account_id # id}
    /\ audit' = SelectSeq(audit, LAMBDA e : e.account_id # id)
    /\ UNCHANGED <<now, nextUUID, calls, accessIssued, refreshIssued, last,
                   rotations, compromised, loggedOut, codecVars, auditSink>>

(* The reuse branch: family revocation, the audit event, TokenCompromised. *)
RefreshReuse(w) ==
    LET c == calls[w] IN
    /\ c.pc = "rf_revoke"
    /\ records' = RevokeByAccountID(c.stored.account_id, now)
    /\ audit' = logSecurityEvent(c.stored.account_id, "TOKEN_REUSE_DETECTED").audit
    /\ compromised' = compromised \cup {r[2] : r \in {x \in rotations : x[1] = c.token}}
    /\ UNCHANGED <<now, accounts, nextUUID, accessIssued,
                   refreshIssued, rotations, loggedOut, codecVars, auditSink>>
    /\ Return(w, c, "reuse",
              IF logSecurityEvent(c.stored.account_id, "TOKEN_REUSE_DETECTED").panicked
                 THEN "Panic" ELSE "TokenCompromised")

(* refreshTokenRepo.MarkAsUsed(storedToken.ID): no row changed is          *)
(* ErrNotFound, which the usecase wraps and the handler answers with 500.  *)
RefreshMarkAsUsed(w) ==
    LET c == [calls[w] EXCEPT !.lost =
                  \E r \in records : r.id = calls[w].stored.id /\ r.used_at # NULL]
    IN
    /\ c.pc = "rf_mark"
    /\ UNCHANGED <<now, accounts, audit, nextUUID, accessIssued,
                   refreshIssued, rotations, compromised, loggedOut, codecVars, auditSink>>
    /\ IF MarkAsUsedRows(c.stored.id, now) = {}
          THEN /\ UNCHANGED records
               /\ Return(w, c, "consume", "Internal")
          ELSE /\ records' = MarkAsUsed(c.stored.id, now)
               /\ Continue(w, [c EXCEPT !.pc = "issue"])

-----------------------------------------------------------------------------
(* logout: AuthUsecase.Logout.  The token is hashed and looked up; it is   *)
(* not validated by the codec.                                             *)

Logout(w, refreshToken) ==
    LET storedToken == GetByTokenHash(HashToken(refreshToken))
        c == [Idle EXCEPT !.op = "logout", !.token = refreshToken,
                          !.late = refreshToken \in loggedOut,
                          !.invalid = NotLive(refreshToken)]
    IN
    /\ CanStart(w)
    /\ UNCHANGED <<now, accounts, records, audit, nextUUID, accessIssued,
                   refreshIssued, rotations, compromised, loggedOut, codecVars, auditSink>>
    /\ IF storedToken = NoRecord
          THEN Return(w, c, "lookup", "ok")
          ELSE Continue(w, [c EXCEPT !.pc = "lo_revoke", !.stored = storedToken])

(* refreshTokenRepo.Revoke(storedToken.ID): no row changed is ErrNotFound, *)
(* which Logout returns and the handler answers with 500.                  *)
LogoutRevoke(w) ==
    LET c == calls[w] IN
    /\ c.pc = "lo_revoke"
    /\ UNCHANGED <<now, accounts, audit, nextUUID, accessIssued,
                   refreshIssued, rotations, compromised, codecVars, auditSink>>
    /\ IF RevokeRows(c.stored.id, now) = {}
          THEN /\ UNCHANGED <<records, loggedOut>>
               /\ Return(w, c, "revoke", "Internal")
          ELSE /\ records' = Revoke(c.stored.id, now)
               /\ loggedOut' = loggedOut \cup {c.token}
               /\ Return(w, c, "revoke", "ok")

-----------------------------------------------------------------------------
(* authorize: the function NewAuthMiddleware installs, for a header        *)
(* "Bearer <token>".  logSuspiciousTokenAttempt writes to the process log  *)
(* only.                                                                   *)

(* The errors logSuspiciousTokenAttempt reports (log.Warnf); for any other *)
(* error it returns at once.                                               *)
SuspiciousTokenAttempt(err) ==
    ContainsNoneAlgorithm(err) \/ ContainsSignatureFailed(err)
        \/ ContainsInvalidAlgorithm(err) \/ ContainsMalformed(err)

(* A middleware that also looks the account of the token up and wants a    *)
(* record of it that is not revoked.                                       *)
AuthorizeWithStore(w, tokenString) ==
    LET v == ValidateAccessToken(tokenString, now)
        c == [Idle EXCEPT !.op = "authorize", !.token = tokenString,
                          !.invalid = v.err # ""]
        known == /\ \E a \in accounts : a.id = tokenString.body.account_id
                 /\ \E r \in records : /\ r.account_id = tokenString.body.account_id
                                        /\ r.revoked_at = NULL
    IN
    /\ CanStart(w)
    /\ UNCHANGED <<now, accounts, records, audit, nextUUID, accessIssued,
                   refreshIssued, rotations, compromised, loggedOut, codecVars, auditSink>>
    /\ Return(w, c, "codec", IF v.err = "" /\ known THEN "ok" ELSE "Unauthorized")

Authorize(w, tokenString) ==
    LET v == ValidateAccessToken(tokenString, now)
        c == [Idle EXCEPT !.op = "authorize", !.token = tokenString,
                          !.invalid = v.err # ""]
    IN
    /\ CanStart(w)
    /\ UNCHANGED <<now, accounts, records, audit, nextUUID, accessIssued,
                   refreshIssued, rotations, compromised, loggedOut, codecVars, auditSink>>
    /\ Return(w, c, "codec", IF v.err = "" THEN "ok" ELSE "Unauthorized")

-----------------------------------------------------------------------------
(* The environment: the clock, and the periodic housekeeping task.         *)

Tick ==
    /\ now < MaxTime
    /\ now' = now + 1
    /\ UNCHANGED <<accounts, records, audit, nextUUID, calls,
                   accessIssued, refreshIssued, last, rotations,
                   compromised, loggedOut, codecVars, auditSink>>

(* The DELETE with "expires_at <= ?".                                      *)
DeleteExpiredInclusive ==
    /\ records' = {r \in records : ~(r.expires_at <= now)}
    /\ UNCHANGED <<now, accounts, audit, nextUUID, calls,
                   accessIssued, refreshIssued, last, rotations,
                   compromised, loggedOut, codecVars, auditSink>>

(* RefreshTokenRepository.DeleteExpired.                                   *)
DeleteExpired ==
    /\ records' = {r \in records : ~(r.expires_at < now)}
    /\ UNCHANGED <<now, accounts, audit, nextUUID, calls,
                   accessIssued, refreshIssued, last, rotations,
                   compromised, loggedOut, codecVars, auditSink>>

-----------------------------------------------------------------------------
NoOutcome == [op |-> "idle", stage |-> "", result |-> "",
              late |-> FALSE, afterReuse |-> FALSE, lost |-> FALSE,
              known |-> FALSE, invalid |-> FALSE, wrote |-> FALSE,
              returned |-> NoAccount]

NoVerdict == [op |-> "", err |-> "", keyUsed |-> FALSE]

NoArgs == [op |-> ""]

(* The engine just constructed: empty tables, no request, clock at zero.   *)
ProtoIdle ==
    /\ now = 0
    /\ accounts = {}
    /\ records = {}
    /\ audit = <<>>
    /\ nextUUID = 0
    /\ calls = [w \in Workers |-> Idle]
    /\ accessIssued = {}
    /\ refreshIssued = {}
    /\ last = NoOutcome
    /\ rotations = {}
    /\ compromised = {}
    /\ loggedOut = {}
    /\ ctok = NoToken
    /\ cnow = 0
    /\ cres = NoVerdict

InitWith(firstUUID) ==
    /\ now = 0
    /\ accounts = {}
    /\ records = {}
    /\ audit = <<>>
    /\ nextUUID = firstUUID
    /\ calls = [w \in Workers |-> Idle]
    /\ accessIssued = {}
    /\ refreshIssued = {}
    /\ last = NoOutcome
    /\ rotations = {}
    /\ compromised = {}
    /\ loggedOut = {}
    /\ auditSink = "up"
    /\ ctok = NoToken
    /\ cnow = 0
    /\ cres = NoVerdict
    /\ fin = NoArgs
    /\ fout = NoArgs

Init == InitWith(SeqFirstUUID)

(* One client at a time: every operation of the engine, interleaved with   *)
(* the clock and the housekeeping task.                                    *)
Next ==
    \/ \E email \in Emails, password \in SignUpPasswords, name \in Names :
          SignUp("w1", email, password, name)
    \/ SignUpCreate("w1")
    \/ \E email \in Emails, password \in LoginPasswords :
          Login("w1", email, password)
    \/ generateTokens("w1")
    \/ \E t \in PresentableTokens : RefreshToken("w1", t)
    \/ RefreshReuse("w1")
    \/ RefreshMarkAsUsed("w1")
    \/ \E t \in PresentableTokens : Logout("w1", t)
    \/ LogoutRevoke("w1")
    \/ \E t \in PresentableTokens : Authorize("w1", t)
    \/ Tick
    \/ DeleteExpired

Spec == Init /\ [][Next]_vars

(* Two clients refreshing concurrently: after one sign-up, the steps of    *)
(* refresh requests of both goroutines interleave freely.                  *)
NextRace ==
    \/ \E name \in Names :
          SignUp("w1", "alice@example.com", [text |-> "Secret123!", len |-> 10], name)
    \/ SignUpCreate("w1")
    \/ \E w \in Workers : generateTokens(w)
    \/ \E w \in Workers, t \in PresentableTokens : RefreshToken(w, t)
    \/ \E w \in Workers : RefreshReuse(w)
    \/ \E w \in Workers : RefreshMarkAsUsed(w)
    \/ Tick
    \/ DeleteExpired

RaceInit == InitWith(0)

SpecRace == RaceInit /\ [][NextRace]_vars

(* Every operation of one client, and accounts being deleted meanwhile.    *)
NextAuthorize ==
    \/ Next
    \/ \E a \in accounts : DeleteAccount(a.id)

SpecAuthorize == Init /\ [][NextAuthorize]_vars

(* One client signing up and refreshing, for each wiring of the audit      *)
(* repository.                                                             *)
SinkInit ==
    /\ ProtoIdle
    /\ auditSink \in SinkModes
    /\ fin = NoArgs
    /\ fout = NoArgs

NextSink ==
    \/ \E name \in Names :
          SignUp("w1", "alice@example.com", [text |-> "Secret123!", len |-> 10], name)
    \/ SignUpCreate("w1")
    \/ generateTokens("w1")
    \/ \E t \in PresentableTokens : RefreshToken("w1", t)
    \/ RefreshReuse("w1")
    \/ RefreshMarkAsUsed("w1")
    \/ Tick

SpecSink == SinkInit /\ [][NextSink]_vars

(* Sign-ups on their own: two goroutines, two addresses, passwords at the  *)
(* limits of the length rule.                                              *)
NextSignUp ==
    \/ \E w \in Workers, email \in SignUpEmails,
           password \in BoundaryPasswords, name \in Names :
          SignUp(w, email, password, name)
    \/ \E w \in Workers : SignUpCreate(w)
    \/ \E w \in Workers : generateTokens(w)

SpecSignUp == RaceInit /\ [][NextSignUp]_vars

(* The same where the INSERT of the refresh-token row can fail.            *)
NextSignUpError ==
    \/ NextSignUp
    \/ \E w \in Workers : generateTokensCreateError(w)

SpecSignUpError == RaceInit /\ [][NextSignUpError]_vars

(* The refresh-token store on its own: its operations in any order, on the *)
(* rows of two accounts.  Row ids are fresh, as uuid.NewV7 makes them.     *)
MaxStoreRecords == 2

StoreAccounts ==
    {[id |-> 1, email |-> "alice@example.com", name |-> "Alice",
      password_hash |-> HashPassword([text |-> "Secret123!", len |-> 10])],
     [id |-> 2, email |-> "bob@example.com", name |-> "Alice",
      password_hash |-> HashPassword([text |-> "Secret123!", len |-> 10])]}

StoreInit ==
    /\ now = 0
    /\ accounts = StoreAccounts
    /\ records = {}
    /\ audit = <<>>
    /\ nextUUID = 0
    /\ calls = [w \in Workers |-> Idle]
    /\ accessIssued = {}
    /\ refreshIssued = {}
    /\ last = NoOutcome
    /\ rotations = {}
    /\ compromised = {}
    /\ loggedOut = {}
    /\ auditSink = "up"
    /\ ctok = NoToken
    /\ cnow = 0
    /\ cres = NoVerdict
    /\ fin = NoArgs
    /\ fout = NoArgs

StoreUnchanged ==
    UNCHANGED <<now, accounts, audit, calls, accessIssued, refreshIssued, last,
                rotations, compromised, loggedOut, codecVars, auditSink>>

(* RefreshTokenRepository.Create of a row NewRefreshToken built.           *)
StoreCreate(accountID) ==
    LET id == nextUUID + 1
        row == NewRefreshToken(accountID,
                               HashToken(GenerateRefreshToken(accountID, now, id)),
                               now + RecordLifetime, id, now)
    IN
    /\ nextUUID < MaxStoreRecords
    /\ nextUUID' = id
    /\ records' = IF CreateFails(row) THEN records ELSE records \cup {row}
    /\ StoreUnchanged

StoreMarkAsUsed(id) ==
    /\ records' = MarkAsUsed(id, now)
    /\ UNCHANGED nextUUID
    /\ StoreUnchanged

StoreRevoke(id) ==
    /\ records' = Revoke(id, now)
    /\ UNCHANGED nextUUID
    /\ StoreUnchanged

StoreRevokeByAccountID(accountID) ==
    /\ records' = RevokeByAccountID(accountID, now)
    /\ UNCHANGED nextUUID
    /\ StoreUnchanged

NextStore ==
    \/ \E a \in {x.id : x \in StoreAccounts} : StoreCreate(a)
    \/ \E id \in 1..MaxStoreRecords : StoreMarkAsUsed(id)
    \/ \E id \in 1..MaxStoreRecords : StoreRevoke(id)
    \/ \E a \in {x.id : x \in StoreAccounts} : StoreRevokeByAccountID(a)
    \/ DeleteExpired
    \/ Tick

SpecStore == StoreInit /\ [][NextStore]_vars

(* refresh against every state of one stored record.  The account has      *)
(* been issued the token LongToken(2) under a configured refresh expiry    *)
(* that outlasts the clock of the model, so that the token passes the      *)
(* codec whatever its record says; the record is unused or used, revoked   *)
(* or not, expired or not, and the account has or has not a second, live   *)
(* record.                                                                 *)
LongToken(id) ==
    SignedString(Body(id, 1, "", Issuer, Audience, MaxTime + 1, 0, 0, id),
                 RefreshTokenSecret)

RefreshInit ==
    /\ now \in 0..MaxTime
    /\ accounts = {[id |-> 1, email |-> "alice@example.com", name |-> "Alice",
                    password_hash |-> HashPassword([text |-> "Secret123!",
                                                    len |-> 10])]}
    /\ \E usedAt \in {NULL, 0}, revokedAt \in {NULL, 0},
          expiresAt \in 0..(MaxTime + 1), sibling \in BOOLEAN :
          records =
            {[NewRefreshToken(1, HashToken(LongToken(2)), expiresAt, 2, 0)
                 EXCEPT !.used_at = usedAt, !.revoked_at = revokedAt]}
            \cup (IF sibling
                     THEN {NewRefreshToken(1, HashToken(LongToken(3)),
                                           MaxTime + 1, 3, 0)}
                     ELSE {})
    /\ audit = <<>>
    /\ nextUUID = 3
    /\ calls = [w \in Workers |-> Idle]
    /\ accessIssued = {}
    /\ refreshIssued = {LongToken(2)}
    /\ last = NoOutcome
    /\ rotations = {}
    /\ compromised = {}
    /\ loggedOut = {}
    /\ auditSink = "up"
    /\ ctok = NoToken
    /\ cnow = 0
    /\ cres = NoVerdict
    /\ fin = NoArgs
    /\ fout = NoArgs

NextRefresh ==
    \/ \E t \in PresentableTokens : RefreshTokenRead("w1", t)
    \/ RefreshLoadAccount("w1")
    \/ DeleteAccount(1)
    \/ generateTokensCreateError("w1")
    \/ RefreshReuse("w1")
    \/ RefreshMarkAsUsed("w1")
    \/ generateTokens("w1")

(* Two accounts, each holding one live record for a refresh token issued   *)
(* to it at clock value 0, and two clients refreshing with whatever can be *)
(* presented.                                                              *)
OwnerInit ==
    /\ now = 0
    /\ accounts = StoreAccounts
    /\ records = {StoredTokenOf(a, GenerateRefreshToken(a, 0, a + 1), a + 1, 0) :
                     a \in {x.id : x \in StoreAccounts}}
    /\ audit = <<>>
    /\ nextUUID = 3
    /\ calls = [w \in Workers |-> Idle]
    /\ accessIssued = {}
    /\ refreshIssued = {GenerateRefreshToken(a, 0, a + 1) :
                           a \in {x.id : x \in StoreAccounts}}
    /\ last = NoOutcome
    /\ rotations = {}
    /\ compromised = {}
    /\ loggedOut = {}
    /\ auditSink = "up"
    /\ ctok = NoToken
    /\ cnow = 0
    /\ cres = NoVerdict
    /\ fin = NoArgs
    /\ fout = NoArgs

NextOwner ==
    \/ \E w \in Workers, t \in PresentableTokens : RefreshToken(w, t)
    \/ \E w \in Workers : RefreshReuse(w)
    \/ \E w \in Workers : RefreshMarkAsUsed(w)
    \/ \E w \in Workers : generateTokens(w)

SpecOwner == OwnerInit /\ [][NextOwner]_vars

(* Two clients against every state of the stored record: one refreshes     *)
(* with the token of record 2, the other logs that token out or refreshes  *)
(* with the token of the account's other record, so that a refresh in      *)
(* flight meets a logout or a reuse branch.                                *)
NextRevoke ==
    \/ RefreshToken("w1", LongToken(2))
    \/ RefreshToken("w2", LongToken(3))
    \/ \E w \in Workers : RefreshReuse(w)
    \/ \E w \in Workers : RefreshMarkAsUsed(w)
    \/ \E w \in Workers : generateTokens(w)
    \/ Logout("w2", LongToken(2))
    \/ LogoutRevoke("w2")

SpecRevoke == RefreshInit /\ [][NextRevoke]_vars

-----------------------------------------------------------------------------
(* Refresh and logout over a store whose calls can fail (a lost            *)
(* connection, a cancelled context): each step that calls the store has a  *)
(* variant in which the call returns an error other than ErrNotFound and   *)
(* no row is read or changed.  The stage of the outcome names the call.    *)

StoreErrorStages ==
    {"get_by_hash_error", "get_by_id_error", "mark_used_error",
     "revoke_by_account_error", "revoke_error", "create_error"}

(* RefreshToken: GetByTokenHash fails after the codec accepted the token.  *)
RefreshGetByTokenHashError(w, refreshToken) ==
    /\ CanStart(w)
    /\ ValidateRefreshToken(refreshToken, now).err = ""
    /\ UNCHANGED <<now, accounts, records, audit, nextUUID, accessIssued,
                   refreshIssued, rotations, compromised, loggedOut, codecVars, auditSink>>
    /\ Return(w, [Idle EXCEPT !.op = "refresh", !.token = refreshToken],
              "get_by_hash_error", "Internal")

(* RefreshToken: GetByID or MarkAsUsed fails; the error is wrapped and     *)
(* returned.                                                               *)
RefreshStoreError(w) ==
    LET c == calls[w] IN
    /\ c.pc \in {"rf_load", "rf_mark"}
    /\ UNCHANGED <<now, accounts, records, audit, nextUUID, accessIssued,
                   refreshIssued, rotations, compromised, loggedOut, codecVars, auditSink>>
    /\ Return(w, c, IF c.pc = "rf_load" THEN "get_by_id_error" ELSE "mark_used_error",
              "Internal")

(* The reuse branch when RevokeByAccountID fails: the error is printed and *)
(* the branch goes on to the audit event and ErrTokenCompromised.          *)
RefreshReuseRevokeError(w) ==
    LET c == calls[w] IN
    /\ c.pc = "rf_revoke"
    /\ audit' = logSecurityEvent(c.stored.account_id, "TOKEN_REUSE_DETECTED").audit
    /\ UNCHANGED <<now, accounts, records, nextUUID, accessIssued, refreshIssued,
                   rotations, compromised, loggedOut, codecVars, auditSink>>
    /\ Return(w, c, "revoke_by_account_error",
              IF logSecurityEvent(c.stored.account_id, "TOKEN_REUSE_DETECTED").panicked
                 THEN "Panic" ELSE "TokenCompromised")

(* Logout: GetByTokenHash fails.                                           *)
LogoutGetByTokenHashError(w, refreshToken) ==
    /\ CanStart(w)
    /\ UNCHANGED <<now, accounts, records, audit, nextUUID, accessIssued,
                   refreshIssued, rotations, compromised, loggedOut, codecVars, auditSink>>
    /\ Return(w, [Idle EXCEPT !.op = "logout", !.token = refreshToken],
              "get_by_hash_error", "Internal")

(* Logout: Revoke fails.                                                   *)
LogoutRevokeError(w) ==
    LET c == calls[w] IN
    /\ c.pc = "lo_revoke"
    /\ UNCHANGED <<now, accounts, records, audit, nextUUID, accessIssued,
                   refreshIssued, rotations, compromised, loggedOut, codecVars, auditSink>>
    /\ Return(w, c, "revoke_error", "Internal")

NextStoreError ==
    \/ \E t \in PresentableTokens : RefreshTokenRead("w1", t)
    \/ RefreshLoadAccount("w1")
    \/ RefreshReuse("w1")
    \/ RefreshMarkAsUsed("w1")
    \/ generateTokens("w1")
    \/ \E t \in PresentableTokens : Logout("w1", t)
    \/ LogoutRevoke("w1")
    \/ \E t \in PresentableTokens : RefreshGetByTokenHashError("w1", t)
    \/ RefreshStoreError("w1")
    \/ RefreshReuseRevokeError("w1")
    \/ generateTokensCreateError("w1")
    \/ \E t \in PresentableTokens : LogoutGetByTokenHashError("w1", t)
    \/ LogoutRevokeError("w1")

SpecStoreError == RefreshInit /\ [][NextStoreError]_vars

SpecRefresh == RefreshInit /\ [][NextRefresh]_vars

-----------------------------------------------------------------------------
(* The codec on its own: ValidateAccessToken and ValidateRefreshToken      *)
(* applied to every token of a bounded set, at every clock value.          *)

CodecAlgs == {"HS256", "HS384", "HS512", "RS256", "ES256", "none", ""}

CodecBodies ==
    {Body(EmptyStr, 1, "alice@example.com", Issuer, Audience, 2, 0, 0, 2),
     Body(3, 1, "", Issuer, Audience, 2, 0, 0, 3),
     Body(3, 1, "", "someone-else", Audience, 1, 0, 0, 3),
     Body(NotUUID, EmptyStr, "", Issuer, <<>>, 3, 1, 1, EmptyStr),
     Body(EmptyStr, 1, "", Issuer, Audience, 2, 0, 0, 2),
     Body(EmptyStr, 1, "alice@example.com", Issuer, Audience, NULL, NULL, 0, 2),
     Body(EmptyStr, 1, "alice@example.com", Issuer, Audience, 2, 0, 2, 2),
     Body(EmptyStr, 1, "alice@example.com", Issuer, Audience, 3, 1, 1, 2),
     Body(EmptyStr, NotUUID, "alice@example.com", Issuer, Audience, 2, 0, 0, 2),
     Body(EmptyStr, EmptyStr, "alice@example.com", Issuer, Audience, 2, 0, 0, 2),
     Body(EmptyStr, 1, "alice@example.com", "someone-else", Audience, 2, 0, 0, 2),
     Body(EmptyStr, 1, "alice@example.com", Issuer,
          <<"jwt-auth-api", "admin-api">>, 2, 0, 0, 2)}

(* Third segments: a MAC under either secret, bytes that are no MAC, and   *)
(* the empty segment.                                                      *)
CodecSigKeys == {AccessTokenSecret, RefreshTokenSecret, "garbage", ""}

CodecTokens ==
    {[parts |-> 3, hdrOk |-> TRUE, alg |-> a, body |-> b,
      sig |-> [key |-> k, alg |-> a, body |-> b]] :
        a \in CodecAlgs, b \in CodecBodies, k \in CodecSigKeys}
    \cup {NoToken, GarbageToken}

CodecInit ==
    /\ now = 0
    /\ accounts = {}
    /\ records = {}
    /\ audit = <<>>
    /\ nextUUID = 0
    /\ calls = [w \in Workers |-> Idle]
    /\ accessIssued = {}
    /\ refreshIssued = {}
    /\ last = NoOutcome
    /\ rotations = {}
    /\ compromised = {}
    /\ loggedOut = {}
    /\ auditSink = "up"
    /\ ctok \in CodecTokens
    /\ cnow \in 0..MaxTime
    /\ cres = NoVerdict
    /\ fin = NoArgs
    /\ fout = NoArgs

CodecAccess ==
    /\ cres' = [op |-> "access"] @@ ValidateAccessToken(ctok, cnow)
    /\ UNCHANGED <<protoVars, ctok, cnow, fin, fout>>

CodecRefresh ==
    /\ cres' = [op |-> "refresh"] @@ ValidateRefreshToken(ctok, cnow)
    /\ UNCHANGED <<protoVars, ctok, cnow, fin, fout>>

CodecNext == CodecAccess \/ CodecRefresh

SpecCodec == CodecInit /\ [][CodecNext]_vars

-----------------------------------------------------------------------------
(* Pure functions of the program on their own: each specification below    *)
(* draws the arguments of one function from a bounded set and applies it.  *)
(* The protocol does not run.                                              *)

FunctionInit == ProtoIdle /\ auditSink = "up"

(* Lists of at most n audience strings.                                    *)
MaxAudLen == 3

AudLists(n) ==
    UNION {[1..k -> {AudienceNames[i] : i \in 1..Len(AudienceNames)}] : k \in 0..n}

(* The audience rule, for every "aud" claim against every configured list  *)
(* Config.Validate lets through (at least one entry).                      *)
AudInit ==
    /\ FunctionInit
    /\ fin \in {[op |-> "audience", aud |-> a, config |-> c] :
                    a \in AudLists(MaxAudLen),
                    c \in AudLists(MaxAudLen) \ {<<>>}}
    /\ fout = NoArgs

AudCheck ==
    /\ fout = NoArgs
    /\ fout' = [op |-> "audience", err |-> checkAudience(fin.aud, fin.config)]
    /\ UNCHANGED <<protoVars, ctok, cnow, cres, fin>>

AudNext == AudCheck

SpecAud == AudInit /\ [][AudNext]_vars

(* Issuing and validating: a token of either kind is generated at one      *)
(* clock value and validated at another, under the same configuration.     *)
MaxIssueTime == 3

IssueInit ==
    /\ FunctionInit
    /\ fin \in {[op |-> k, at |-> a, t |-> t] :
                    k \in {"access", "refresh"},
                    a \in 0..MaxIssueTime,
                    t \in 0..(MaxIssueTime + AccessTokenExpiry + 1)}
    /\ fout = NoArgs

IssueToken ==
    /\ fout = NoArgs
    /\ fout' = [op |-> "issued", err |-> "",
                token |-> IF fin.op = "access"
                            THEN GenerateAccessToken(1, "alice@example.com", fin.at, 2)
                            ELSE GenerateRefreshToken(1, fin.at, 2)]
    /\ UNCHANGED <<protoVars, ctok, cnow, cres, fin>>

ValidateIssued ==
    /\ fout.op = "issued"
    /\ fout' = [fout EXCEPT
                  !.op = "validated",
                  !.err = IF fin.op = "access"
                            THEN ValidateAccessToken(fout.token, fin.t).err
                            ELSE ValidateRefreshToken(fout.token, fin.t).err]
    /\ UNCHANGED <<protoVars, ctok, cnow, cres, fin>>

IssueNext == IssueToken \/ ValidateIssued

SpecIssue == IssueInit /\ [][IssueNext]_vars

(* A token of one kind handed to the validator of the other kind, under    *)
(* each configuration of the two secrets (JWT_SECRET alone gives both the  *)
(* same value).                                                            *)
CrossInit ==
    /\ FunctionInit
    /\ fin \in {[op |-> k, at |-> a, t |-> t, access |-> sa, refresh |-> sr] :
                    k \in {"access", "refresh"},
                    a \in 0..MaxIssueTime,
                    t \in 0..(MaxIssueTime + AccessTokenExpiry + 1),
                    sa \in {AccessTokenSecret, RefreshTokenSecret},
                    sr \in {AccessTokenSecret, RefreshTokenSecret}}
    /\ fout = NoArgs

CrossIssue ==
    /\ fout = NoArgs
    /\ fout' = [op |-> "issued", err |-> "",
                token |-> IF fin.op = "access"
                            THEN SignedString(
                                   GenerateAccessToken(1, "alice@example.com",
                                                       fin.at, 2).body,
                                   fin.access)
                            ELSE SignedString(
                                   GenerateRefreshToken(1, fin.at, 2).body,
                                   fin.refresh)]
    /\ UNCHANGED <<protoVars, ctok, cnow, cres, fin>>

CrossValidate ==
    /\ fout.op = "issued"
    /\ fout' = [fout EXCEPT
                  !.op = "validated",
                  !.err = IF fin.op = "access"
                            THEN ValidateRefreshTokenWith(fout.token, fin.t,
                                                          fin.refresh).err
                            ELSE ValidateAccessTokenWith(fout.token, fin.t,
                                                         fin.access).err]
    /\ UNCHANGED <<protoVars, ctok, cnow, cres, fin>>

SpecCross == CrossInit /\ [][CrossIssue \/ CrossValidate]_vars

(* generateTokens as a function of the configured refresh expiry: the      *)
(* refresh token it generates at a clock value and the row it builds for   *)
(* it.                                                                     *)
MaxRefreshExpiry == 3
MaxPairUUID == 5

PairInit ==
    /\ FunctionInit
    /\ fin \in {[op |-> "pair", account |-> a, at |-> t, id |-> i, expiry |-> e] :
                    a \in 1..2, t \in 0..MaxIssueTime, i \in 2..MaxPairUUID,
                    e \in 1..MaxRefreshExpiry}
    /\ fout = NoArgs

PairIssue ==
    LET refreshToken == GenerateRefreshTokenWith(fin.account, fin.at, fin.id,
                                                 fin.expiry)
    IN
    /\ fout = NoArgs
    /\ fout' = [op |-> "pair", token |-> refreshToken,
                record |-> StoredTokenOf(fin.account, refreshToken, fin.id, fin.at)]
    /\ UNCHANGED <<protoVars, ctok, cnow, cres, fin>>

SpecPair == PairInit /\ [][PairIssue]_vars

-----------------------------------------------------------------------------
(* Properties.                                                             *)

(* A TOKEN_REUSE_DETECTED row of the audit table that carries the id of an *)
(* account.                                                                *)
ReuseAudited ==
    \E i \in 1..Len(audit), a \in accounts :
        audit[i] = [account_id |-> a.id, event_type |-> "TOKEN_REUSE_DETECTED"]

(* C1, as stated: once some refresh(T) has returned a pair, every later    *)
(* refresh(T) returns TokenCompromised and leaves every record of the      *)
(* account revoked.  (The model has a single account.)                     *)
C1_EveryLaterRefreshCompromised ==
    (last.op = "refresh" /\ last.late) =>
        /\ last.result = "TokenCompromised"
        /\ \A r \in records : r.revoked_at # NULL

(* C1, amended: once some refresh(T) has returned a pair, every later      *)
(* refresh(T) that passes codec validation and finds T's record returns    *)
(* TokenCompromised, and leaves every record of the account revoked.       *)
C1_LaterRefreshOfStoredTokenCompromised ==
    (last.op = "refresh" /\ last.late /\ last.stage \notin {"codec", "lookup"}) =>
        /\ last.result = "TokenCompromised"
        /\ \A r \in records : r.revoked_at # NULL

C1_Witness ==
    /\ last.op = "refresh" /\ last.late
    /\ last.result = "TokenCompromised" /\ last.wrote
    /\ \E r \in records : r.used_at = NULL /\ r.revoked_at = now

(* C2: of the refresh calls that present the same token T, at most one     *)
(* returns a pair, so at most one token is ever rotated out of T.          *)
C2_AtMostOneRotation ==
    \A x, y \in rotations : x[1] = y[1] => x = y

(* C3: the refresh call that finds, at its consume step, that another call *)
(* has consumed the row it read as unused returns TokenCompromised, and a  *)
(* TOKEN_REUSE_DETECTED audit event exists.                                *)
C3_LoserReturnsCompromised ==
    (last.op = "refresh" /\ last.lost) =>
        /\ last.result = "TokenCompromised"
        /\ ReuseAudited

(* The step by which the refresh call of worker w returns a pair.          *)
RefreshSucceeds(w) ==
    /\ calls[w].op = "refresh" /\ calls[w].pc = "issue"
    /\ calls'[w].op = "idle"
    /\ last'.result = "ok"

(* What C4 says of the new record: exactly one row is inserted, its id and *)
(* token_hash are not those of T's record, and the refresh token returned  *)
(* (the one the new row was hashed from) is not T.                         *)
OneNewRecord(w) ==
    /\ records \subseteq records'
    /\ Cardinality(records' \ records) = 1
    /\ \A n \in records' \ records :
          /\ n.id # calls[w].stored.id
          /\ n.token_hash # HashToken(calls[w].token)
          /\ \E x \in rotations' \ rotations :
                /\ x[1] = calls[w].token /\ x[2] # calls[w].token
                /\ HashToken(x[2]) = n.token_hash

(* C4, as stated: when refresh(T) returns a pair, T's record has used_at   *)
(* set and exactly one new record has been created, different from T's.    *)
C4_RecordUsedAndOneNew ==
    [][\A w \in Workers : RefreshSucceeds(w) =>
          /\ \E r \in records' :
                r.token_hash = HashToken(calls[w].token) /\ r.used_at # NULL
          /\ OneNewRecord(w)]_vars

(* C4, amended: when refresh(T) returns a pair, T's record, unless the     *)
(* housekeeping task has deleted it meanwhile, has used_at set, and        *)
(* exactly one new record has been created, different from T's.            *)
C4_StoredRecordUsedAndOneNew ==
    [][\A w \in Workers : RefreshSucceeds(w) =>
          /\ \A r \in records' :
                r.token_hash = HashToken(calls[w].token) => r.used_at # NULL
          /\ OneNewRecord(w)]_vars

C4_Witness ==
    /\ last.op = "refresh" /\ last.result = "ok" /\ last.wrote
    /\ \E x \in rotations :
          /\ \E r \in records : r.token_hash = HashToken(x[1]) /\ r.used_at # NULL
          /\ \E r \in records : r.token_hash = HashToken(x[2]) /\ r.used_at = NULL

(* C5, as stated: after refresh(P1) returned P2 and a second refresh(P1)   *)
(* returned TokenCompromised, refresh(P2) returns InvalidToken, changes no *)
(* row, and a TOKEN_REUSE_DETECTED event of the account exists.            *)
C5_HeirInvalid ==
    (last.op = "refresh" /\ last.afterReuse) =>
        /\ last.result = "InvalidToken"
        /\ ~last.wrote
        /\ ReuseAudited

(* C5, amended: the same, for a P2 whose record is not read as used, that  *)
(* is, a P2 that has not itself been consumed by a refresh.                *)
C5_UnusedHeirInvalid ==
    (last.op = "refresh" /\ last.afterReuse /\ last.stage # "reuse") =>
        /\ last.result = "InvalidToken"
        /\ ~last.wrote
        /\ ReuseAudited

C5_Witness ==
    /\ last.op = "refresh" /\ last.afterReuse
    /\ last.stage = "validity" /\ last.result = "InvalidToken"
    /\ ReuseAudited

(* C6, as stated: refresh, logout and authorize called with a token that   *)
(* is not live change no row of accounts and no row of refresh_tokens.     *)
C6_InvalidTokenChangesNothing ==
    (last.op \in {"refresh", "logout", "authorize"} /\ last.invalid) =>
        ~last.wrote

(* C6, amended: the same, except for refresh of a token whose record is    *)
(* read as used (the family is revoked) and for logout of a token whose    *)
(* record is stored (the record is revoked whatever its state).            *)
C6_InvalidTokenChangesNothingUnlessReuseOrLogout ==
    (/\ last.op \in {"refresh", "logout", "authorize"} /\ last.invalid
     /\ ~(last.op = "refresh" /\ last.stage = "reuse")
     /\ ~(last.op = "logout" /\ last.stage = "revoke")) =>
        ~last.wrote

C6_Witness ==
    /\ last.op = "refresh" /\ last.invalid /\ last.stage = "validity"
    /\ ~last.wrote
    /\ \E r \in records : r.used_at = NULL /\ r.revoked_at # NULL

(* C7: a logout(T) that follows a logout(T) which revoked T's record       *)
(* returns success and changes no row.                                     *)
C7_SecondLogoutIsNoop ==
    (last.op = "logout" /\ last.late) =>
        /\ last.result = "ok"
        /\ ~last.wrote

(* C8: login with an email no account has returns InvalidCredentials and   *)
(* changes no row.                                                         *)
C8_UnknownEmailInvalidCredentials ==
    (last.op = "login" /\ ~last.known) =>
        /\ last.result = "InvalidCredentials"
        /\ ~last.wrote

(* C9, as stated: sign_up with an email that belongs to an account returns *)
(* EmailTaken and changes no row.                                          *)
C9_KnownEmailTaken ==
    (last.op = "signup" /\ last.known) =>
        /\ last.result = "EmailTaken"
        /\ ~last.wrote

(* C9, amended: the same, for a request that passes the handler's checks   *)
(* (non-empty fields, password of 8 to 60 bytes).                          *)
C9_KnownEmailTakenAfterHandlerChecks ==
    (last.op = "signup" /\ last.known /\ last.stage # "handler") =>
        /\ last.result = "EmailTaken"
        /\ ~last.wrote

C9_Witness ==
    /\ last.op = "signup" /\ last.known
    /\ last.stage = "exists" /\ last.result = "EmailTaken"
    /\ Cardinality(accounts) = 1

(* C10: ValidateAccessToken and ValidateRefreshToken reject every token    *)
(* whose header alg is not HS256, whatever its payload and signature, and  *)
(* the Keyfunc has not handed the secret to the verification.              *)
C10_OnlyHS256 ==
    (cres.op # "" /\ ctok.alg # HS256) =>
        /\ cres.err # ""
        /\ ~cres.keyUsed

C10_Witness ==
    /\ cres.op = "refresh" /\ cnow = 0
    /\ ctok.alg = "HS384" /\ ctok.sig.key = RefreshTokenSecret
    /\ ctok.body.token_id = 3 /\ ctok.body.iss = Issuer
    /\ ContainsInvalidAlgorithm(cres.err)

(* The number of positions of list s that hold x.                          *)
Occurrences(s, x) == Cardinality({i \in 1..Len(s) : s[i] = x})

(* Two lists hold the same entries with the same multiplicities.           *)
SameMultiset(s, t) ==
    \A i \in 1..Len(AudienceNames) :
        Occurrences(s, AudienceNames[i]) = Occurrences(t, AudienceNames[i])

(* C11: the audience rule accepts a token's aud list exactly when it       *)
(* equals the configured audience list as a multiset: a permutation is     *)
(* accepted; a subset, a superset and a list with other multiplicities     *)
(* are rejected.                                                           *)
C11_AudienceMultisetEqual ==
    fout.op = "audience" =>
        ((fout.err = "") <=> SameMultiset(fin.aud, fin.config))

(* A permutation of a two-entry configured list that is not the list       *)
(* itself was accepted.                                                    *)
C11_Witness ==
    /\ fout.op = "audience"
    /\ fout.err = ""
    /\ Len(fin.config) >= 2
    /\ fin.aud # fin.config

(* What C12 lists, for the token and the clock value of the codec harness: *)
(* three non-empty segments, a header naming HS256, a MAC of this header   *)
(* and payload under the access secret, iss and aud as configured, and an  *)
(* account_id that is a UUID.                                              *)
C12_Listed ==
    /\ ctok.parts = 3
    /\ ctok.sig.key # ""
    /\ ctok.hdrOk /\ ctok.alg = HS256
    /\ ctok.sig = [key |-> AccessTokenSecret, alg |-> ctok.alg, body |-> ctok.body]
    /\ ctok.body.iss = Issuer
    /\ SameMultiset(ctok.body.aud, Audience)
    /\ ctok.body.account_id \notin {EmptyStr, NotUUID}

(* C12 as stated: access-token validation accepts exactly the tokens that  *)
(* meet the listed conditions with exp > now and nbf <= now, and asks for  *)
(* nothing else.                                                           *)
C12_AcceptsIffListed ==
    cres.op = "access" =>
        ((cres.err = "") <=>
            /\ C12_Listed
            /\ ctok.body.exp # NULL /\ cnow < ctok.body.exp
            /\ ctok.body.nbf # NULL /\ ctok.body.nbf <= cnow)

(* C12: access-token validation accepts exactly the tokens that meet the   *)
(* listed conditions, carry a non-empty email claim, have no exp claim or  *)
(* exp > now, and have no nbf claim or nbf <= now.                         *)
C12_AcceptsIffListedAndEmail ==
    cres.op = "access" =>
        ((cres.err = "") <=>
            /\ C12_Listed
            /\ ctok.body.email # ""
            /\ (ctok.body.exp = NULL \/ cnow < ctok.body.exp)
            /\ (ctok.body.nbf = NULL \/ ctok.body.nbf <= cnow))

(* A token that meets every listed condition was rejected because its      *)
(* email claim is empty.                                                   *)
C12_Witness ==
    /\ cres.op = "access"
    /\ C12_Listed
    /\ ctok.body.exp # NULL /\ cnow < ctok.body.exp
    /\ ctok.body.nbf # NULL /\ ctok.body.nbf <= cnow
    /\ ctok.body.email = ""
    /\ cres.err = "missing email in claims"

(* C13: a token issued by the codec and validated under the same secret   *)
(* and configuration is accepted at time t exactly when iat <= t < exp;    *)
(* at t = exp it is rejected as expired.                                   *)
C13_ValidFromIatUntilExp ==
    fout.op = "validated" =>
        /\ (fout.err = "") <=>
              (fout.token.body.iat <= fin.t /\ fin.t < fout.token.body.exp)
        /\ fin.t = fout.token.body.exp => fout.err = "has expired"

(* A token whose exp is one second after the validation time was accepted. *)
C13_Witness ==
    /\ fout.op = "validated"
    /\ fout.token.body.exp = fin.t + 1
    /\ fout.err = ""

(* C14: whenever authorize rejects a bearer token as none-alg,             *)
(* signature-invalid, wrong-alg or malformed, a SUSPICIOUS_LOGIN event     *)
(* with the sentinel account is appended to the audit log.                 *)
C14_SuspiciousAuthorizeAudited ==
    [][\A t \in PresentableTokens :
          (Authorize("w1", t)
              /\ SuspiciousTokenAttempt(ValidateAccessToken(t, now).err))
          => /\ Len(audit') = Len(audit) + 1
             /\ audit'[Len(audit')] =
                   [account_id |-> NilUUID, event_type |-> "SUSPICIOUS_LOGIN"]]_vars

(* C15: whatever the audit repository is (absent, working, failing), a     *)
(* refresh in the reuse branch has revoked the family and returns          *)
(* TokenCompromised, a refresh whose token fails validation returns        *)
(* InvalidToken, and no request ends in a failure of the audit path.       *)
C15_OutcomeIndependentOfSink ==
    /\ (last.op = "refresh" /\ last.stage = "reuse") =>
          /\ last.result = "TokenCompromised"
          /\ \A r \in records : r.revoked_at # NULL
    /\ (last.op = "refresh" /\ last.stage = "codec") =>
          last.result = "InvalidToken"
    /\ last.result # "Panic"

(* Without an audit repository a reuse was answered with TokenCompromised  *)
(* and nothing was written to the audit table.                             *)
C15_Witness ==
    /\ auditSink = "absent"
    /\ last.op = "refresh" /\ last.stage = "reuse"
    /\ last.result = "TokenCompromised"
    /\ audit = <<>>
    /\ \E r \in records : r.revoked_at # NULL

(* C16: every stored record holds the SHA-256 digest of the refresh token  *)
(* it was issued for and never that token string, and looking up the       *)
(* digest of an issued token returns the record inserted with it, as long  *)
(* as that record is stored.                                               *)
C16_DigestStoredAndFound ==
    /\ \A r \in records :
          \E T \in refreshIssued :
              /\ T.body.token_id = r.id
              /\ r.token_hash = [sha256 |-> T]
              /\ r.token_hash # T
    /\ \A T \in refreshIssued :
          IF \E r \in records : r.id = T.body.token_id
             THEN /\ GetByTokenHash(HashToken(T)) \in records
                  /\ GetByTokenHash(HashToken(T)).id = T.body.token_id
             ELSE GetByTokenHash(HashToken(T)) = NoRecord

(* Two issued refresh tokens whose records are both stored, one of them    *)
(* already used, each found under its own digest.                          *)
C16_Witness ==
    \E T1, T2 \in refreshIssued :
        /\ T1 # T2
        /\ GetByTokenHash(HashToken(T1)).id = T1.body.token_id
        /\ GetByTokenHash(HashToken(T2)).id = T2.body.token_id
        /\ GetByTokenHash(HashToken(T1)).used_at # NULL
        /\ GetByTokenHash(HashToken(T2)).used_at = NULL

(* C17: for an address that is valid and not registered, sign_up answers   *)
(* InvalidInput to a password of 7 or of 61 characters and goes on to      *)
(* create the account for a password of 8 or of 60 characters, the length  *)
(* being the number of unicode scalars; a rejected sign_up leaves the      *)
(* accounts as they were.                                                  *)
C17_LengthInCharacters ==
    [][\A w \in Workers, email \in SignUpEmails,
          password \in BoundaryPasswords, name \in Names :
          (SignUp(w, email, password, name)
              /\ Validate(email, name) = ""
              /\ ~\E a \in accounts : a.email = email)
          => IF password.chars \in {7, 61}
                THEN /\ calls'[w] = Idle
                     /\ last'.op = "signup" /\ last'.result = "InvalidInput"
                     /\ accounts' = accounts
                ELSE /\ calls'[w].pc = "su_create"
                     /\ calls'[w].account.password_hash = HashPassword(password)]_vars

(* C18: the account in the answer of a successful sign_up, login or        *)
(* refresh has an empty password hash and is otherwise the stored account, *)
(* and the stored account still has its password hash.                     *)
C18_ReturnedAccountWithoutHash ==
    (last.op \in {"signup", "login", "refresh"} /\ last.result = "ok") =>
        /\ last.returned.password_hash = <<"", "">>
        /\ \E a \in accounts :
              /\ a.password_hash \in {HashPassword(p) : p \in SignUpPasswords}
              /\ a.password_hash # <<"", "">>
              /\ [a EXCEPT !.password_hash = <<"", "">>] = last.returned

(* A login succeeded and answered with the account.                        *)
C18_Witness ==
    /\ last.op = "login" /\ last.result = "ok"
    /\ last.returned.email = "alice@example.com"
    /\ last.returned.password_hash = <<"", "">>

(* C19: no two accounts share an email, also when two sign_up calls with   *)
(* the same email both pass the existence check before either inserts.     *)
C19_EmailUnique ==
    \A a, b \in accounts : a.email = b.email => a = b

(* Two sign_up calls for one email had both passed the existence check;    *)
(* one inserted its account and the other's INSERT was refused.            *)
C19_Witness ==
    /\ last.op = "signup" /\ last.stage = "create" /\ last.result = "Internal"
    /\ ~last.known
    /\ \E a \in accounts : a.email = "alice@example.com"

(* C20: under any sequence of store operations (create, mark_used, revoke, *)
(* revoke_by_account, delete_expired) a row whose used_at is set keeps it  *)
(* set, and a row whose revoked_at is set keeps it set, for as long as the *)
(* row exists.                                                             *)
C20_UsedAndRevokedStay ==
    [][\A r \in records : \A q \in records' :
          q.id = r.id =>
              /\ r.used_at # NULL => q.used_at # NULL
              /\ r.revoked_at # NULL => q.revoked_at # NULL]_vars

(* A row marked used and revoked at time 0 has gone through a later        *)
(* mark_used and is still used and revoked.                                *)
C20_Witness ==
    \E r \in records :
        /\ r.created_at = 0
        /\ r.revoked_at = 0
        /\ r.used_at = 1
        /\ now = 2

(* The ids of the records of an account that are live at clock value t:    *)
(* not used, not revoked, not expired.                                     *)
LiveIds(rs, accountID, t) ==
    {r.id : r \in {x \in rs : /\ x.account_id = accountID
                               /\ x.used_at = NULL /\ x.revoked_at = NULL
                               /\ x.expires_at > t}}

(* C21: a refresh(T) that returns a pair takes exactly T's record out of   *)
(* the account's live records (its consume step) and puts exactly one new  *)
(* record in (its issue step), so their number is the same before and      *)
(* after the call.  (Stated for calls whose record has not reached its     *)
(* expiry by the consume step.)                                            *)
C21_RotationKeepsLiveCount ==
    [][\A w \in Workers :
          LET a == calls[w].stored.account_id
              before == LiveIds(records, a, now)
              after == LiveIds(records', a, now)
          IN
          /\ (calls[w].pc = "rf_mark" /\ calls'[w].pc = "issue"
                /\ calls[w].stored.expires_at > now) =>
                /\ before \ after = {calls[w].stored.id}
                /\ after \subseteq before
          /\ RefreshSucceeds(w) =>
                /\ before \subseteq after
                /\ Cardinality(after \ before) = 1]_vars

(* C22: a refresh with a token that passes the codec and whose record has  *)
(* used_at set goes to the reuse branch whatever else the record says      *)
(* (revoked, expired): it returns TokenCompromised, never InvalidToken,    *)
(* and leaves every record of the account revoked.                         *)
C22_ReuseBeforeValidity ==
    [][/\ \A t \in PresentableTokens :
            (/\ RefreshTokenRead("w1", t)
             /\ ValidateRefreshToken(t, now).err = ""
             /\ \E r \in records : r.token_hash = HashToken(t) /\ r.used_at # NULL)
            => /\ calls'["w1"].pc = "rf_revoke"
               /\ last' = last
       /\ (calls["w1"].pc = "rf_revoke" /\ calls'["w1"].pc # "rf_revoke")
            => /\ last'.op = "refresh" /\ last'.result = "TokenCompromised"
               /\ \A r \in records' :
                     r.account_id = calls["w1"].stored.account_id
                        => r.revoked_at # NULL]_vars

(* A token whose record was used, revoked and expired was answered with    *)
(* TokenCompromised, and the account's other record is revoked.            *)
C22_Witness ==
    /\ last.op = "refresh" /\ last.result = "TokenCompromised"
    /\ \E r \in records :
          /\ r.id = 2 /\ r.used_at # NULL /\ r.revoked_at = 0
          /\ r.expires_at < now
    /\ \E r \in records : r.id = 3 /\ r.revoked_at = now

(* C23: mark_used(id) sets used_at only when it is null: on a record whose *)
(* used_at is set it leaves the record as it is, and for an id without a   *)
(* record it changes no row and reports not-found.                         *)
C23_MarkUsedOnlyWhenNull ==
    [][\A id \in 1..MaxStoreRecords :
          StoreMarkAsUsed(id) =>
              /\ \A r \in records :
                    (r.id = id /\ r.used_at # NULL) => r \in records'
              /\ (~\E r \in records : r.id = id) =>
                    /\ records' = records
                    /\ MarkAsUsedRows(id, now) = {}]_vars

(* C24: when the account of a live, valid refresh token is gone at the     *)
(* moment refresh loads it, refresh returns InvalidToken there, and no     *)
(* record is marked used or created.                                       *)
C24_MissingAccountInvalidToken ==
    [][(/\ RefreshLoadAccount("w1")
        /\ ~\E a \in accounts : a.id = calls["w1"].token.body.account_id)
       => /\ calls'["w1"] = Idle
          /\ last'.op = "refresh" /\ last'.result = "InvalidToken"
          /\ records' = records]_vars

(* The record of the token was marked used in this run (the clock stands   *)
(* still and the initial records are used at 0 or not at all) and no       *)
(* rotation of the token was completed: the call that marked it stopped    *)
(* before its new record was persisted.                                    *)
StoppedAfterMark(token, storedToken) ==
    /\ now > 0
    /\ storedToken.used_at = now
    /\ ~\E p \in rotations : p[1] = token

C26_StoreFailureIsInternal ==
    last.stage \in StoreErrorStages => last.result = "Internal"

(* C27: the row issue_pair persists has the id of the token's token_id and *)
(* jti claims, the hash of the issued token string, and expires at issue   *)
(* time plus the configured refresh expiry, the instant of the token's exp *)
(* claim, whatever the configured expiry is.                               *)
C27_RecordMatchesToken ==
    fout.op = "pair" =>
        /\ fout.record.id = fout.token.body.token_id
        /\ fout.record.id = fout.token.body.jti
        /\ fout.record.token_hash = HashToken(fout.token)
        /\ fout.record.expires_at = fin.at + fin.expiry
        /\ fout.record.expires_at = fout.token.body.exp

(* C28: a refresh whose token the codec rejects with a none-algorithm,     *)
(* signature or wrong-algorithm error appends exactly one SUSPICIOUS_LOGIN *)
(* row with the sentinel account and returns InvalidToken; one the codec   *)
(* rejects with any other error returns InvalidToken and appends nothing.  *)
C28_SuspiciousRefreshAudited ==
    [][\A t \in PresentableTokens :
          (RefreshToken("w1", t) /\ ValidateRefreshToken(t, now).err # "")
          => /\ last'.op = "refresh" /\ last'.result = "InvalidToken"
             /\ audit' = IF Suspicious(ValidateRefreshToken(t, now).err)
                            THEN Append(audit, [account_id |-> NilUUID,
                                                event_type |-> "SUSPICIOUS_LOGIN"])
                            ELSE audit]_vars

(* C29: revoke_by_account(A) keeps the rows of the table, gives every row  *)
(* of account A whose revoked_at is null the current time as revoked_at,   *)
(* and leaves every other row (another account's, or already revoked) and  *)
(* every other column as it was.                                           *)
C29_RevokeByAccountOnlyUnrevoked ==
    [][\A a \in {x.id : x \in StoreAccounts} :
          StoreRevokeByAccountID(a) =>
              /\ {r.id : r \in records'} = {r.id : r \in records}
              /\ Cardinality(records') = Cardinality(records)
              /\ \A r \in records :
                    \E n \in records' :
                        /\ n.id = r.id
                        /\ [n EXCEPT !.revoked_at = NULL] = [r EXCEPT !.revoked_at = NULL]
                        /\ n.revoked_at =
                              IF r.account_id = a /\ r.revoked_at = NULL
                                 THEN now ELSE r.revoked_at]_vars

(* Two rows of one account: the one revoked earlier kept its time, the     *)
(* used one that was not revoked got the time of the call.                 *)
C29_Witness ==
    \E r \in records, n \in records :
        /\ r.account_id = n.account_id /\ r.id # n.id
        /\ r.revoked_at # NULL /\ n.revoked_at # NULL
        /\ r.revoked_at < n.revoked_at
        /\ n.used_at # NULL /\ n.used_at < n.revoked_at

(* C30: delete_expired removes the rows whose expires_at is before the     *)
(* current time and no other, and changes no row it keeps: a live row      *)
(* stays, and what refresh reads for a token whose row has not expired     *)
(* (the row found by its hash, the accounts) is the same after as before.  *)
C30_DeleteExpiredOnlyExpired ==
    [][DeleteExpired =>
          /\ records' \subseteq records
          /\ \A r \in records : (r \in records') <=> ~(r.expires_at < now)
          /\ \A r \in records : IsValid(r, now) => r \in records'
          /\ \A r \in records :
                ~(r.expires_at < now)
                   => (GetByTokenHash(r.token_hash))' = GetByTokenHash(r.token_hash)
          /\ accounts' = accounts]_vars

(* Two rows were created, the expired one is gone and the live one is      *)
(* still there.                                                            *)
C30_Witness ==
    /\ nextUUID = MaxStoreRecords
    /\ Cardinality(records) = 1
    /\ \E r \in records : IsValid(r, now) /\ r.id = MaxStoreRecords

C32_PairForOwnerOfRecord ==
    [][\A w \in Workers :
          RefreshSucceeds(w) =>
              LET owner == calls[w].stored.account_id IN
              /\ Cardinality(records' \ records) = 1
              /\ \A n \in records' \ records : n.account_id = owner
              /\ Cardinality(refreshIssued' \ refreshIssued) = 1
              /\ Cardinality(accessIssued' \ accessIssued) = 1
              /\ \A t \in (refreshIssued' \ refreshIssued)
                               \cup (accessIssued' \ accessIssued) :
                    t.body.sub = owner /\ t.body.account_id = owner
              /\ last'.returned.id = owner]_vars

(* Both accounts have refreshed: each holds the record it started with,    *)
(* now used, and one new record of its own.                                *)
C32_Witness ==
    /\ last.op = "refresh" /\ last.result = "ok"
    /\ \A a \in accounts :
          /\ \E r \in records : r.account_id = a.id /\ r.id = a.id + 1
                                  /\ r.used_at # NULL
          /\ \E r \in records : r.account_id = a.id /\ r.id > 3
                                  /\ r.used_at = NULL

(* C33: what authorize answers for a token is decided by the token, the    *)
(* codec configuration and the clock alone, whatever logout, refresh,      *)
(* family revocation and account deletion did to the tables; so an access  *)
(* token the service issued is accepted as long as the clock is before its *)
(* exp.                                                                    *)
C33_AuthorizeIgnoresStore ==
    [][\A t \in PresentableTokens :
          Authorize("w1", t) =>
              /\ last'.op = "authorize"
              /\ last'.result = "ok" <=> ValidateAccessToken(t, now).err = ""
              /\ (t \in accessIssued /\ now < t.body.exp) => last'.result = "ok"]_vars

(* An access token was accepted after its account was deleted.             *)
C33_Witness ==
    /\ last.op = "authorize" /\ last.result = "ok"
    /\ accessIssued # {}
    /\ accounts = {} /\ records = {}

(* C34: the access validator rejects every refresh token the service       *)
(* issues and the refresh validator rejects every access token it issues,  *)
(* at every clock value, also when the two secrets are the same string.    *)
C34_KindsNotInterchangeable ==
    fout.op = "validated" => fout.err # ""

(* A refresh token signed with the secret the access validator uses, at a  *)
(* clock value inside its lifetime, was rejected for its missing email.    *)
C34_Witness ==
    /\ fout.op = "validated" /\ fin.op = "refresh"
    /\ fin.access = fin.refresh
    /\ fout.err = "missing email in claims"

(* C35: whenever refresh steps set revoked_at on a record of an account,   *)
(* the step is the reuse branch of a call whose token the refresh codec    *)
(* accepts and whose stored record (the one with the hash of that token)   *)
(* belongs to that account and has used_at set; no other string presented  *)
(* to refresh revokes anything.                                            *)
C35_FamilyRevocationOnlyByUsedToken ==
    [][\A r \in records, n \in records' :
          (n.id = r.id /\ r.revoked_at = NULL /\ n.revoked_at # NULL)
          => \E w \in Workers :
                /\ calls[w].op = "refresh" /\ calls[w].pc = "rf_revoke"
                /\ calls'[w].op = "idle"
                /\ ValidateRefreshToken(calls[w].token, now).err = ""
                /\ calls[w].stored.token_hash = HashToken(calls[w].token)
                /\ calls[w].stored.account_id = r.account_id
                /\ calls[w].stored.used_at # NULL]_vars

(* The reuse branch ran for one account: its records are revoked, the      *)
(* other account's record is not.                                          *)
C35_Witness ==
    /\ last.op = "refresh" /\ last.result = "TokenCompromised"
    /\ \E a \in accounts, b \in accounts :
          /\ \A r \in records : r.account_id = a.id => r.revoked_at # NULL
          /\ \E r \in records : r.account_id = a.id /\ r.used_at = NULL
          /\ \E r \in records : r.account_id = b.id /\ r.revoked_at = NULL

(* C36: a step of logout(T) leaves the accounts and the audit table as     *)
(* they are, keeps every record, and changes at most the revoked_at of the *)
(* record with the hash of T; it never answers TokenCompromised.           *)
C36_LogoutFrame ==
    [][\A w \in Workers :
          (/\ calls'[w] # calls[w]
           /\ calls[w].op = "logout" \/ calls'[w].op = "logout")
          => /\ accounts' = accounts
             /\ audit' = audit
             /\ compromised' = compromised
             /\ {n.id : n \in records'} = {r.id : r \in records}
             /\ Cardinality(records') = Cardinality(records)
             /\ \A r \in records :
                   \/ r \in records'
                   \/ /\ r.token_hash = HashToken(calls[w].token)
                      /\ [r EXCEPT !.revoked_at = now] \in records'
             /\ calls'[w].op = "idle"
                   => /\ last'.op = "logout"
                      /\ last'.result # "TokenCompromised"]_vars

(* A token already rotated was logged out: its record kept used_at, got    *)
(* revoked_at, the record of its successor is still live and nothing was   *)
(* written to the audit table.                                             *)
C36_Witness ==
    /\ last.op = "logout" /\ last.stage = "revoke" /\ last.result = "ok"
    /\ audit = <<>>
    /\ \E r \in records, n \in records :
          /\ r.used_at # NULL /\ r.revoked_at = now
          /\ n.account_id = r.account_id /\ IsValid(n, now)

(* C37: a sign_up that returns an error leaves no account row of its own   *)
(* behind, also when the error is the failed INSERT of the refresh-token   *)
(* row after the account was inserted.                                     *)
C37_SignUpAllOrNothing ==
    [][\A w \in Workers :
          (/\ calls[w].op = "signup" /\ calls'[w].op = "idle"
           /\ last'.result # "ok")
          => ~\E a \in accounts' : a.id = calls[w].account.id]_vars

====
